---------------------------- MODULE Spec2Model ----------------------------
(***************************************************************************)
(* Model of src/extractors/root-extractor.js: the selector resolution      *)
(* (findMatchingSelector), the content mutators (cleanBySelectors,         *)
(* transformElements), the field resolver (select), the fallback           *)
(* (extractResult) and the orchestrator (RootExtractor.extract).           *)
(*                                                                         *)
(* JavaScript values are records tagged by a field k, so that values of    *)
(* different kinds can be compared.  Strings are sequences of characters   *)
(* so that trim() is computed and not assumed.                             *)
(***************************************************************************)
EXTENDS Naturals, Sequences, FiniteSets

-----------------------------------------------------------------------------
(* Bounds of the explored inputs *)

\* number of elements of a generated document
MaxNodes == 2
\* number of candidates of a rule's selectors list
MaxSelectors == 2

-----------------------------------------------------------------------------
(* JavaScript values *)

Undefined == [k |-> "undefined"]
Null == [k |-> "null"]
Str(s) == [k |-> "str", s |-> s]

\* ToBoolean, as applied by `!x`, `if (x)`, `a && b` and `a || b`
Truthy(v) ==
  CASE v.k = "undefined" -> FALSE
    [] v.k = "null" -> FALSE
    [] v.k = "str" -> v.s # <<>>
    [] v.k = "html" -> v.tree # <<>>
    [] v.k = "markdown" -> v.blank = FALSE
    [] OTHER -> TRUE

RECURSIVE TrimStart(_)
TrimStart(s) ==
  IF s # <<>> /\ Head(s) = " " THEN TrimStart(Tail(s)) ELSE s

RECURSIVE TrimEnd(_)
TrimEnd(s) ==
  IF s # <<>> /\ s[Len(s)] = " " THEN TrimEnd(SubSeq(s, 1, Len(s) - 1)) ELSE s

\* String.prototype.trim
Trim(s) == TrimEnd(TrimStart(s))

-----------------------------------------------------------------------------
(* The DOM substrate: a document is the list of the root's children and a  *)
(* table of elements; an element has a tag, its own text (ahead of its     *)
(* children), at most one attribute and the list of its children.          *)

RECURSIVE Preorder(_, _)
Preorder(d, ids) ==
  IF ids = <<>> THEN <<>>
  ELSE <<Head(ids)>> \o Preorder(d, d.n[Head(ids)].kids) \o Preorder(d, Tail(ids))

RECURSIVE Descendants(_, _)
Descendants(d, ids) ==
  IF ids = <<>> THEN <<>>
  ELSE Preorder(d, d.n[Head(ids)].kids) \o Descendants(d, Tail(ids))

Range(s) == {s[i] : i \in 1..Len(s)}

RECURSIVE Filter(_, _, _)
Filter(d, ids, tags) ==
  IF ids = <<>> THEN <<>>
  ELSE (IF d.n[Head(ids)].tag \in tags THEN <<Head(ids)>> ELSE <<>>)
         \o Filter(d, Tail(ids), tags)

\* $(selector): the elements of the document that match one of the tags,
\* in document order
Query(d, tags) == Filter(d, Preorder(d, d.root), tags)

\* $(selector, $content): the matching descendants of the context elements
Find(d, tags, ctx) == Filter(d, Descendants(d, ctx), tags)

RECURSIVE TextOf(_, _)
TextOf(d, ids) ==
  IF ids = <<>> THEN <<>>
  ELSE d.n[Head(ids)].text \o TextOf(d, d.n[Head(ids)].kids) \o TextOf(d, Tail(ids))

\* $(...).attr(name): the attribute of the first element of the selection
AttrOf(d, ids, name) ==
  IF ids = <<>> THEN Undefined
  ELSE IF d.n[Head(ids)].an = name THEN Str(d.n[Head(ids)].av) ELSE Undefined

RECURSIVE Without(_, _)
Without(s, x) ==
  IF s = <<>> THEN <<>>
  ELSE (IF Head(s) \in x THEN <<>> ELSE <<Head(s)>>) \o Without(Tail(s), x)

RECURSIVE DetachFrom(_, _)
DetachFrom(nodes, ids) ==
  IF nodes = <<>> THEN <<>>
  ELSE <<[Head(nodes) EXCEPT !.kids = Without(@, ids)]>> \o DetachFrom(Tail(nodes), ids)

\* the elements of ids are taken out of their parents
Detach(d, ids) == [root |-> Without(d.root, ids), n |-> DetachFrom(d.n, ids)]

\* $(...).remove()
Remove(d, ids) == Detach(d, Range(ids))

RECURSIVE Replace(_, _, _)
Replace(s, x, y) ==
  IF s = <<>> THEN <<>>
  ELSE <<IF Head(s) = x THEN y ELSE Head(s)>> \o Replace(Tail(s), x, y)

RECURSIVE ReplaceIn(_, _, _)
ReplaceIn(nodes, x, y) ==
  IF nodes = <<>> THEN <<>>
  ELSE <<[Head(nodes) EXCEPT !.kids = Replace(@, x, y)]>> \o ReplaceIn(Tail(nodes), x, y)

NewElement(tag, kids) == [tag |-> tag, text |-> <<>>, an |-> "", av |-> <<>>, kids |-> kids]

\* $('<div></div>'): a new element, outside the document
Create(d, tag) == [d EXCEPT !.n = Append(@, NewElement(tag, <<>>))]

\* $wrapper.append(element): the element moves to the end of the wrapper
AppendTo(d, w, id) ==
  LET e == Detach(d, {id}) IN [e EXCEPT !.n[w].kids = Append(@, id)]

\* $(el).wrap($('<div></div>')): a new div takes the element's place and
\* holds it; the new element's id is Len(d.n) + 1
Wrap(d, id) ==
  LET w == Len(d.n) + 1 IN
  [root |-> Replace(d.root, id, w),
   n |-> Append(ReplaceIn(d.n, id, w), NewElement("div", <<id>>))]

RECURSIVE Snapshot(_, _)
Snapshot(d, ids) ==
  IF ids = <<>> THEN <<>>
  ELSE <<[tag |-> d.n[Head(ids)].tag, text |-> d.n[Head(ids)].text,
          an |-> d.n[Head(ids)].an, av |-> d.n[Head(ids)].av,
          kids |-> Snapshot(d, d.n[Head(ids)].kids)]>> \o Snapshot(d, Tail(ids))


-----------------------------------------------------------------------------
(* Selectors and rules.  A selector is a plain string (arr = FALSE, s a    *)
(* one-element list) or an array of strings (arr = TRUE).  A field's rule  *)
(* is Undefined, a string constant or a FieldExtractionSpec.               *)

Plain(x) == [arr |-> FALSE, s |-> <<x>>]
Arr(xs) == [arr |-> TRUE, s |-> xs]
NoSelector == [arr |-> FALSE, s |-> <<>>]

\* a definition that gives the fields of `custom` the rule and the other
\* fields none
Definition(domain, custom, rule) == [domain |-> domain, custom |-> custom, rule |-> rule]

\* extractor[type]
RuleOf(definition, type) ==
  IF type \in definition.custom THEN definition.rule ELSE Undefined

\* selector.reduce((acc, s) => acc && $(s).length > 0, true)
RECURSIVE AllResolve(_, _, _)
AllResolve(d, xs, acc) ==
  IF xs = <<>> THEN acc
  ELSE AllResolve(d, Tail(xs), acc /\ Len(Query(d, {Head(xs)})) > 0)

\* the callback with the arity test of a pair dropped: $(s).length >= 1
SelectorMatchesSome(d, selector, extractHtml) ==
  IF selector.arr
    THEN IF extractHtml
           THEN AllResolve(d, selector.s, TRUE)
           ELSE /\ Len(Query(d, {selector.s[1]})) >= 1
                /\ Truthy(AttrOf(d, Query(d, {selector.s[1]}), selector.s[2]))
                /\ Trim(AttrOf(d, Query(d, {selector.s[1]}), selector.s[2]).s) # <<>>
    ELSE /\ Len(Query(d, {selector.s[1]})) = 1
         /\ Trim(TextOf(d, Query(d, {selector.s[1]}))) # <<>>

\* the callback of selectors.find
SelectorMatches(d, selector, extractHtml) ==
  IF selector.arr
    THEN IF extractHtml
           THEN AllResolve(d, selector.s, TRUE)
           ELSE LET s == selector.s[1]
                    attr == selector.s[2]
                    v == AttrOf(d, Query(d, {s}), attr)
                IN  /\ Len(Query(d, {s})) = 1
                    /\ Truthy(v)
                    /\ Trim(v.s) # <<>>
    ELSE /\ Len(Query(d, {selector.s[1]})) = 1
         /\ Trim(TextOf(d, Query(d, {selector.s[1]}))) # <<>>

\* a search that keeps the last element the callback accepts
RECURSIVE FindLastFrom(_, _, _, _)
FindLastFrom(d, selectors, extractHtml, i) ==
  IF i > Len(selectors) THEN NoSelector
  ELSE IF FindLastFrom(d, selectors, extractHtml, i + 1) # NoSelector
    THEN FindLastFrom(d, selectors, extractHtml, i + 1)
  ELSE IF SelectorMatches(d, selectors[i], extractHtml) THEN selectors[i]
  ELSE NoSelector

\* Array.prototype.find: the first element the callback accepts
RECURSIVE FindFrom(_, _, _, _)
FindFrom(d, selectors, extractHtml, i) ==
  IF i > Len(selectors) THEN NoSelector
  ELSE IF SelectorMatches(d, selectors[i], extractHtml) THEN selectors[i]
  ELSE FindFrom(d, selectors, extractHtml, i + 1)

findMatchingSelector(d, selectors, extractHtml) ==
  FindFrom(d, selectors, extractHtml, 1)

-----------------------------------------------------------------------------
(* The content mutators *)

\* convertNodeTo (utils/dom): the element gets the tag, and keeps its
\* children and attributes
convertNodeTo(d, id, tag) == [d EXCEPT !.n[id].tag = tag]

RECURSIVE ConvertAll(_, _, _)
ConvertAll(d, ids, tag) ==
  IF ids = <<>> THEN d
  ELSE ConvertAll(convertNodeTo(d, Head(ids), tag), Tail(ids), tag)

\* one key of the transforms: a string value converts every match, a
\* function value is called on every match and converts it when it
\* returns a string (ret # ""); the functions of the model change nothing
\* themselves
TransformKey(d, content, t) ==
  LET matches == Find(d, {t.key}, content) IN
  IF t.kind = "string" THEN ConvertAll(d, matches, t.to)
  ELSE IF t.kind = "function" /\ t.to # "" THEN ConvertAll(d, matches, t.to)
  ELSE d

RECURSIVE TransformKeys(_, _, _)
TransformKeys(d, content, ts) ==
  IF ts = <<>> THEN d
  ELSE TransformKeys(TransformKey(d, content, Head(ts)), content, Tail(ts))

transformElements(d, content, extractionOpts) ==
  IF ~extractionOpts.transforms.has THEN d
  ELSE TransformKeys(d, content, extractionOpts.transforms.keys)

cleanBySelectors(d, content, extractionOpts) ==
  IF ~extractionOpts.clean.has THEN d
  ELSE Remove(d, Find(d, Range(extractionOpts.clean.sels), content))

-----------------------------------------------------------------------------
(* The external collaborators.  `cleaners` and `genericNone` say how the   *)
(* collaborators of one run behave; they are fixed when the run starts.    *)

VARIABLES doc, extractor, callOpts, cleaners, genericNone, pc, res, log, ret

vars == <<doc, extractor, callOpts, cleaners, genericNone, pc, res, log, ret>>

\* Cleaners[type](text, opts): a normalized value, an empty string or null
CleanValue(type, value) ==
  CASE cleaners = "value" -> [k |-> "cleaned", type |-> type, of |-> value]
    [] cleaners = "empty" -> Str(<<>>)
    [] OTHER -> Null

\* Cleaners[type]($content, opts): the region it keeps (all of it or nothing)
CleanRegion(type, content) ==
  IF cleaners = "value" THEN content ELSE <<>>

\* GenericExtractor[type](opts): a value that depends on the field and on
\* the options it was given, or null
GenericExtractor(type, opts) ==
  IF type \in genericNone THEN Null
  ELSE [k |-> "generic", type |-> type, opts |-> opts]

\* $.html($content), $.text($content), turndownService.turndown($.html(...))
Render(d, region, contentType) ==
  CASE contentType = "html" -> [k |-> "html", tree |-> Snapshot(d, region)]
    [] contentType = "text" -> Str(TextOf(d, region))
    [] OTHER -> [k |-> "markdown", tree |-> Snapshot(d, region),
                 blank |-> Trim(TextOf(d, region)) = <<>>]

-----------------------------------------------------------------------------
(* The field resolver.  Every intermediate value of select is handed on as *)
(* an argument, in the order the code computes them.                       *)

\* what select returns and what it did: the value, the document it leaves,
\* the selector it matched, the steps it ran in their order, and the value
\* or region the per-field cleaner was given
Outcome(result, d, matching, steps, cleaned) ==
  [result |-> result, doc |-> d, matching |-> matching, steps |-> steps,
   cleaned |-> cleaned]

RECURSIVE AppendAll(_, _, _)
AppendAll(d, w, ids) ==
  IF ids = <<>> THEN d ELSE AppendAll(AppendTo(d, w, Head(ids)), w, Tail(ids))

\* lines 102-112: the matched elements move into a new div, or the one
\* matched element is the content
Collect(d, matchingSelector) ==
  IF matchingSelector.arr
    THEN AppendAll(Create(d, "div"), Len(d.n) + 1, Query(d, Range(matchingSelector.s)))
    ELSE d

CollectedContent(d, matchingSelector) ==
  IF matchingSelector.arr THEN Len(d.n) + 1 ELSE Query(d, {matchingSelector.s[1]})[1]

\* lines 121-132: the per-field cleaner, then the renderer
RenderHtml(opts, d, content, matchingSelector) ==
  Outcome(Render(d, CleanRegion(opts.type, content),
                 IF opts.contentType = "undefined" THEN "html" ELSE opts.contentType),
          d, matchingSelector, <<"transform", "clean", "cleaner", "render">>,
          [k |-> "region", tree |-> Snapshot(d, content)])

\* the two mutators in the other order: the region is cleaned, then
\* transformed
MutateHtmlCleanFirst(opts, d, content, matchingSelector) ==
  RenderHtml(opts,
             transformElements(cleanBySelectors(d, content, opts.extractionOpts),
                               content, opts.extractionOpts),
             content, matchingSelector)

\* lines 118-119: the region is transformed, then cleaned
MutateHtml(opts, d, content, matchingSelector) ==
  RenderHtml(opts,
             cleanBySelectors(transformElements(d, content, opts.extractionOpts),
                              content, opts.extractionOpts),
             content, matchingSelector)

\* lines 115-116: the content is wrapped in a div, which becomes the content
WrapHtml(opts, d, matchingSelector) ==
  MutateHtml(opts, d, <<Len(d.n)>>, matchingSelector)

\* lines 97-133: the branch of select that extracts html
SelectHtml(opts, d, matchingSelector) ==
  WrapHtml(opts, Wrap(Collect(d, matchingSelector), CollectedContent(d, matchingSelector)),
           matchingSelector)

\* lines 153-159
CleanResult(opts, d, matchingSelector, read, result) ==
  IF opts.extractionOpts.defaultCleaner # "false"
    THEN Outcome(CleanValue(opts.type, result), d, matchingSelector,
                 Append(read, "cleaner"), result)
    ELSE Outcome(result, d, matchingSelector, read, Undefined)

\* lines 145-150: the node is cleaned, then transformed, then read
ReadText(opts, d, node, matchingSelector) ==
  CleanResult(opts, d, matchingSelector, <<"clean", "transform", "text">>,
              Str(Trim(TextOf(d, node))))

MutateText(opts, d, node, matchingSelector) ==
  ReadText(opts,
           transformElements(cleanBySelectors(d, node, opts.extractionOpts),
                             node, opts.extractionOpts),
           node, matchingSelector)

\* the branch with the attribute read but not trimmed
SelectTextUntrimmed(opts, d, matchingSelector) ==
  IF matchingSelector.arr
    THEN CleanResult(opts, d, matchingSelector, <<"attr">>,
                     Str(AttrOf(d, Query(d, {matchingSelector.s[1]}),
                                matchingSelector.s[2]).s))
    ELSE MutateText(opts, d, Query(d, {matchingSelector.s[1]}), matchingSelector)

\* lines 135-151: the branch of select that extracts an attribute or text
SelectText(opts, d, matchingSelector) ==
  IF matchingSelector.arr
    THEN CleanResult(opts, d, matchingSelector, <<"attr">>,
                     Str(Trim(AttrOf(d, Query(d, {matchingSelector.s[1]}),
                                     matchingSelector.s[2]).s)))
    ELSE MutateText(opts, d, Query(d, {matchingSelector.s[1]}), matchingSelector)

\* lines 88-160
SelectMatched(opts, d, matchingSelector) ==
  IF matchingSelector = NoSelector THEN Outcome(Null, d, NoSelector, <<>>, Undefined)
  ELSE IF opts.extractHtml = "true" THEN SelectHtml(opts, d, matchingSelector)
  ELSE SelectText(opts, d, matchingSelector)

select(opts, d) ==
  IF ~Truthy(opts.extractionOpts) THEN Outcome(Null, d, NoSelector, <<>>, Undefined)
  ELSE IF opts.extractionOpts.k = "str"
    THEN Outcome(opts.extractionOpts, d, NoSelector, <<>>, Undefined)
  ELSE SelectMatched(opts, d,
                     findMatchingSelector(d, opts.extractionOpts.selectors,
                                          opts.extractHtml = "true"))

\* the options without the definition and the rule, as they are logged
Bag(opts) ==
  [type |-> opts.type, contentOnly |-> opts.contentOnly,
   extractedTitle |-> opts.extractedTitle, contentType |-> opts.contentType,
   fallback |-> opts.fallback, extractHtml |-> opts.extractHtml,
   title |-> opts.title, content |-> opts.content, excerpt |-> opts.excerpt]

\* a fallback that does not look at opts.fallback
FallbackAlways(opts, sel) ==
  IF Truthy(sel.result)
    THEN [out |-> sel.result, sel |-> sel, generic |-> FALSE]
    ELSE [out |-> GenericExtractor(opts.type, Bag(opts)), sel |-> sel, generic |-> TRUE]

\* a fallback that tests the result against null instead of its truth
FallbackOnNull(opts, sel) ==
  IF sel.result # Null
    THEN [out |-> sel.result, sel |-> sel, generic |-> FALSE]
  ELSE IF opts.fallback # "false"
    THEN [out |-> GenericExtractor(opts.type, Bag(opts)), sel |-> sel, generic |-> TRUE]
  ELSE [out |-> Null, sel |-> sel, generic |-> FALSE]

\* lines 167-176.  The record holds the returned value (out) and, for the
\* log, the resolver's outcome and whether the Generic Extractor was called
Fallback(opts, sel) ==
  IF Truthy(sel.result)
    THEN [out |-> sel.result, sel |-> sel, generic |-> FALSE]
  ELSE IF opts.fallback # "false"
    THEN [out |-> GenericExtractor(opts.type, Bag(opts)), sel |-> sel, generic |-> TRUE]
  ELSE [out |-> Null, sel |-> sel, generic |-> FALSE]

\* lines 162-177
extractResult(opts, d) ==
  Fallback(opts, select([opts EXCEPT !.extractionOpts = RuleOf(opts.extractor, opts.type)], d))

-----------------------------------------------------------------------------
(* The inputs of a run: documents, rules, definitions and call options *)

Names == {"a", "b"}

Fields ==
  {"title", "date_published", "author", "next_page_url", "content",
   "lead_image_url", "excerpt", "dek", "word_count", "direction",
   "url_and_domain"}

ResultKeys ==
  {"title", "content", "author", "date_published", "lead_image_url", "dek",
   "next_page_url", "url", "domain", "excerpt", "word_count", "direction"}

\* an element without text and attribute, one whose text and attribute b
\* are blank, and one whose text and attribute b hold something
Kinds == {"none", "blank", "full"}

KindText(kind) ==
  CASE kind = "none" -> <<>>
    [] kind = "blank" -> <<" ">>
    [] OTHER -> <<" ", "x", " ">>

KindAttr(kind) ==
  CASE kind = "none" -> <<>>
    [] kind = "blank" -> <<" ">>
    [] OTHER -> <<" ", "v", " ">>

RECURSIVE ChildrenOf(_, _, _)
ChildrenOf(par, p, i) ==
  IF i > Len(par) THEN <<>>
  ELSE (IF par[i] = p THEN <<i>> ELSE <<>>) \o ChildrenOf(par, p, i + 1)

\* the document of n elements with the given tags, kinds and parents
\* (parent 0 is the root)
RECURSIVE MakeNodes(_, _, _, _)
MakeNodes(tag, kind, par, i) ==
  IF i > Len(par) THEN <<>>
  ELSE <<[tag |-> tag[i], text |-> KindText(kind[i]),
          an |-> IF kind[i] = "none" THEN "" ELSE "b",
          av |-> KindAttr(kind[i]), kids |-> ChildrenOf(par, i, 1)]>>
         \o MakeNodes(tag, kind, par, i + 1)

MakeDoc(n, tag, kind, par) ==
  [root |-> ChildrenOf(par, 0, 1), n |-> MakeNodes(tag, kind, par, 1)]

\* the tag and the kind of an element, numbered
Sorts == {<<tag, kind>> : tag \in Names, kind \in Kinds}

SortRank(sort) ==
  (IF sort[1] = "a" THEN 0 ELSE Cardinality(Kinds))
    + (CASE sort[2] = "none" -> 1 [] sort[2] = "blank" -> 2 [] OTHER -> 3)

\* documents whose elements are all children of the root, in the order of
\* their rank (the resolution does not depend on the order of siblings)
FlatDocs ==
  UNION {{MakeDoc(n, [i \in 1..n |-> sort[i][1]], [i \in 1..n |-> sort[i][2]],
                  [i \in 1..n |-> 0]) :
            sort \in {f \in [1..n -> Sorts] :
                        \A i \in 1..n : \A j \in 1..i : SortRank(f[j]) <= SortRank(f[i])}} :
         n \in 0..MaxNodes}

\* documents whose elements have text (the first one's may be blank), each
\* a child of the root or of the element before it
NestedDocs ==
  UNION {{MakeDoc(n, tag, [i \in 1..n |-> IF i = 1 THEN first ELSE "full"], par) :
            tag \in [1..n -> Names], first \in {"blank", "full"},
            par \in {f \in [1..n -> 0..n] : \A i \in 1..n : f[i] \in {0, i - 1}}} :
         n \in 1..MaxNodes}

\* an element a without text, an element a with text, and a blank
\* element a that holds an element b with text
SmallDocs ==
  {MakeDoc(1, <<"a">>, <<"none">>, <<0>>), MakeDoc(1, <<"a">>, <<"full">>, <<0>>),
   MakeDoc(2, <<"a", "b">>, <<"blank", "full">>, <<0, 1>>)}

Selectors == {Plain(x) : x \in Names} \cup {Arr(<<x, "b">>) : x \in Names}

SelectorLists == UNION {[1..n -> Selectors] : n \in 1..MaxSelectors}

NoClean == [has |-> FALSE, sels |-> <<>>]
NoTransforms == [has |-> FALSE, keys |-> <<>>]
Cleans == {NoClean} \cup {[has |-> TRUE, sels |-> <<x>>] : x \in Names}
Transforms ==
  {NoTransforms,
   [has |-> TRUE, keys |-> <<[key |-> "a", kind |-> "string", to |-> "b"]>>],
   [has |-> TRUE, keys |-> <<[key |-> "b", kind |-> "function", to |-> "a"]>>],
   [has |-> TRUE, keys |-> <<[key |-> "b", kind |-> "function", to |-> ""]>>]}

Rule(selectors, clean, transforms, defaultCleaner) ==
  [k |-> "spec", selectors |-> selectors, clean |-> clean,
   transforms |-> transforms, defaultCleaner |-> defaultCleaner]

\* rules that differ in their selectors list only
SelectionRules == {Rule(l, NoClean, NoTransforms, "undefined") : l \in SelectorLists}

\* rules of one selector that differ in what they clean and transform
MutationRules ==
  {Rule(<<sel>>, c, t, "undefined") : sel \in Selectors, c \in Cleans, t \in Transforms}

\* string constants and rules with and without the default cleaner
FieldRules ==
  {Str(<<>>), Str(<<"x">>)}
    \cup {Rule(<<sel>>, [has |-> TRUE, sels |-> <<"b">>], NoTransforms, dc) :
            sel \in {Plain("a"), Arr(<<"a", "b">>)}, dc \in {"undefined", "false"}}

CallOpts(contentOnly, contentType, fallback) ==
  [contentOnly |-> contentOnly,
   extractedTitle |-> IF contentOnly THEN Str(<<"t">>) ELSE Undefined,
   contentType |-> contentType, fallback |-> fallback, extractHtml |-> "undefined",
   title |-> Undefined, content |-> Undefined, excerpt |-> Undefined]

ContentTypes == {"undefined", "html", "text", "markdown"}
Fallbacks == {"undefined", "true", "false"}

AllCallOpts ==
  {CallOpts(FALSE, "undefined", fb) : fb \in Fallbacks}
    \cup {CallOpts(TRUE, ct, fb) : ct \in ContentTypes, fb \in {"undefined", "false"}}

CustomSets == {{}, Fields} \cup {{f} : f \in Fields}

-----------------------------------------------------------------------------
(* RootExtractor.extract, one step for each extractResult it calls *)

NoReturn == [k |-> "none"]

\* extract is called with document d, definition e and options o; the
\* cleaners behave as c says and the Generic Extractor finds nothing for
\* the fields of g
Start(d, e, o, c, g) ==
  /\ doc = d
  /\ extractor = e
  /\ callOpts = o
  /\ cleaners = c
  /\ genericNone = g
  /\ pc = "start"
  /\ res = [f \in Fields |-> Undefined]
  /\ log = <<>>
  /\ ret = NoReturn

\* runs that exercise the selector resolution, in text and in html mode
SelectionRuns ==
  \E d \in FlatDocs, r \in SelectionRules, contentOnly \in BOOLEAN :
    Start(d, Definition("example.com", {"title", "content"}, r),
          CallOpts(contentOnly, "undefined", "undefined"), "value", {})

\* runs that exercise the content mutators, in text and in html mode
MutationRuns ==
  \E d \in NestedDocs, r \in MutationRules,
     o \in {CallOpts(FALSE, "undefined", "undefined"),
            CallOpts(TRUE, "text", "undefined")} :
    Start(d, Definition("example.com", {"title", "content"}, r), o, "value", {})

\* runs that exercise the orchestration: which fields have a rule, the call
\* options and the behaviour of the cleaners and of the Generic Extractor
FieldRuns ==
  \E d \in SmallDocs, custom \in CustomSets, r \in FieldRules, o \in AllCallOpts,
     x \in {<<"value", {}>>, <<"empty", {}>>, <<"value", {"content", "url_and_domain"}>>,
            <<"null", {"content", "url_and_domain"}>>} :
    Start(d, Definition("example.com", custom, r), o, x[1], x[2])

\* runs with the generic definition
WildcardRuns ==
  \E d \in SmallDocs, o \in AllCallOpts :
    Start(d, Definition("*", {}, Undefined), o, "value", {})

Init == SelectionRuns \/ MutationRuns \/ FieldRuns \/ WildcardRuns

\* lines 185-188: opts = { ...opts, extractor }
Opts ==
  [type |-> "", extractor |-> extractor, extractionOpts |-> Undefined,
   contentOnly |-> callOpts.contentOnly, extractedTitle |-> callOpts.extractedTitle,
   contentType |-> callOpts.contentType, fallback |-> callOpts.fallback,
   extractHtml |-> callOpts.extractHtml, title |-> callOpts.title,
   content |-> callOpts.content, excerpt |-> callOpts.excerpt]

\* what the log keeps of one call of extractResult
Entry(opts, r) ==
  [type |-> opts.type, opts |-> Bag(opts), rule |-> RuleOf(opts.extractor, opts.type),
   before |-> doc, after |-> r.sel.doc, result |-> r.sel.result,
   matching |-> r.sel.matching, steps |-> r.sel.steps, cleaned |-> r.sel.cleaned,
   generic |-> r.generic, out |-> r.out]

\* what a call of extractResult at position `at` leaves, extract going on
\* at `to`
Resolved(at, to, opts, r) ==
  /\ pc = at
  /\ pc' = to
  /\ doc' = r.sel.doc
  /\ res' = [res EXCEPT ![opts.type] = r.out]
  /\ log' = Append(log, Entry(opts, r))
  /\ UNCHANGED <<extractor, callOpts, cleaners, genericNone>>

\* a call of extractResult whose value is kept for the result
Resolve(at, to, opts) ==
  \E r \in {extractResult(opts, doc)} :
    /\ Resolved(at, to, opts, r)
    /\ ret' = ret

\* line 183
Delegate ==
  /\ pc = "start"
  /\ extractor.domain = "*"
  /\ pc' = "done"
  /\ ret' = [k |-> "delegated", opts |-> callOpts]
  /\ UNCHANGED <<doc, extractor, callOpts, cleaners, genericNone, res, log>>

\* the options of the content-only call without extractHtml
ContentOnlyOptsAsText ==
  [Opts EXCEPT !.type = "content", !.title = callOpts.extractedTitle,
               !.contentType = IF callOpts.contentType = "undefined"
                                 THEN "html" ELSE callOpts.contentType]

\* lines 192-198
ContentOnlyOpts ==
  [Opts EXCEPT !.type = "content", !.extractHtml = "true",
               !.title = callOpts.extractedTitle,
               !.contentType = IF callOpts.contentType = "undefined"
                                 THEN "html" ELSE callOpts.contentType]

\* lines 190-201
ContentOnly ==
  /\ extractor.domain # "*"
  /\ callOpts.contentOnly
  /\ \E r \in {extractResult(ContentOnlyOpts, doc)} :
       /\ Resolved("start", "done", ContentOnlyOpts, r)
       /\ ret' = [k |-> "record", fields |-> [key \in {"content"} |-> r.out]]

\* line 202
Title ==
  /\ extractor.domain # "*"
  /\ ~callOpts.contentOnly
  /\ Resolve("start", "date_published", [Opts EXCEPT !.type = "title"])

\* line 203
DatePublished ==
  Resolve("date_published", "author", [Opts EXCEPT !.type = "date_published"])

\* line 204
Author ==
  Resolve("author", "next_page_url", [Opts EXCEPT !.type = "author"])

\* line 205
NextPageUrl ==
  Resolve("next_page_url", "content", [Opts EXCEPT !.type = "next_page_url"])

\* lines 206-211
Content ==
  Resolve("content", "lead_image_url",
          [Opts EXCEPT !.type = "content", !.extractHtml = "true",
                       !.title = res["title"]])

\* lines 212-216
LeadImageUrl ==
  Resolve("lead_image_url", "excerpt",
          [Opts EXCEPT !.type = "lead_image_url", !.content = res["content"]])

\* line 217
Excerpt ==
  Resolve("excerpt", "dek", [Opts EXCEPT !.type = "excerpt", !.content = res["content"]])

\* the dek resolved without the excerpt
DekWithoutExcerpt ==
  Resolve("dek", "word_count", [Opts EXCEPT !.type = "dek", !.content = res["content"]])

\* line 218
Dek ==
  Resolve("dek", "word_count",
          [Opts EXCEPT !.type = "dek", !.content = res["content"],
                       !.excerpt = res["excerpt"]])

\* line 219
WordCount ==
  Resolve("word_count", "direction",
          [Opts EXCEPT !.type = "word_count", !.content = res["content"]])

\* line 220
Direction ==
  Resolve("direction", "url_and_domain",
          [Opts EXCEPT !.type = "direction", !.title = res["title"]])

\* extractResult(...) with the default dropped
OrNothing(out) == out

\* lines 221-224: extractResult(...) || { url: null, domain: null }
OrDefault(out) ==
  IF Truthy(out) THEN out ELSE [k |-> "pair", url |-> Null, domain |-> Null]

\* value.name: the property of an object, undefined for a string
Prop(value, name) ==
  CASE value.k = "pair" -> value[name]
    [] value.k \in {"generic", "cleaned"} -> [k |-> "prop", name |-> name, of |-> value]
    [] OTHER -> Undefined

\* lines 221-239: const { url, domain } = value throws a TypeError when the
\* value is null or undefined; otherwise the record is returned
Destructured(value) ==
  IF value.k \in {"null", "undefined"}
    THEN [k |-> "TypeError"]
    ELSE [k |-> "record",
          fields |-> [key \in ResultKeys |->
                        CASE key = "url" -> Prop(value, "url")
                          [] key = "domain" -> Prop(value, "domain")
                          [] OTHER -> res[key]]]

\* lines 221-239
UrlAndDomain ==
  \E r \in {extractResult([Opts EXCEPT !.type = "url_and_domain"], doc)} :
    /\ Resolved("url_and_domain", "done", [Opts EXCEPT !.type = "url_and_domain"], r)
    /\ ret' = Destructured(OrDefault(r.out))

Next ==
  \/ Delegate
  \/ ContentOnly
  \/ Title
  \/ DatePublished
  \/ Author
  \/ NextPageUrl
  \/ Content
  \/ LeadImageUrl
  \/ Excerpt
  \/ Dek
  \/ WordCount
  \/ Direction
  \/ UrlAndDomain

Spec == Init /\ [][Next]_vars

-----------------------------------------------------------------------------
(* Properties.  The log holds one entry for each call of extractResult:    *)
(* its options, the field's rule, the document before and after, what      *)
(* select matched, did and returned, whether the Generic Extractor was     *)
(* called, and the value returned.                                         *)

Calls == 1..Len(log)

\* the call resolved a FieldExtractionSpec
HasSpec(e) == e.rule.k = "spec"

InHtmlMode(e) == e.opts.extractHtml = "true"

Count(d, s) == Len(Query(d, {s}))

\* the predicate of a candidate, by its shape and the mode
Satisfies(d, selector, html) ==
  IF ~selector.arr
    THEN /\ Count(d, selector.s[1]) = 1
         /\ Trim(TextOf(d, Query(d, {selector.s[1]}))) # <<>>
  ELSE IF html
    THEN \A j \in 1..Len(selector.s) : Count(d, selector.s[j]) >= 1
  ELSE /\ Count(d, selector.s[1]) = 1
       /\ \E id \in Range(Query(d, {selector.s[1]})) :
            /\ d.n[id].an = selector.s[2]
            /\ Trim(d.n[id].av) # <<>>

Satisfying(e) ==
  {j \in 1..Len(e.rule.selectors) :
     Satisfies(e.before, e.rule.selectors[j], InHtmlMode(e))}

\* C1: findMatchingSelector returns the candidate of lowest index whose
\* predicate holds, whatever the later candidates do, and no selector
\* exactly when no candidate's predicate holds.
C1_FirstMatchWins ==
  \A i \in Calls :
    HasSpec(log[i]) =>
      IF Satisfying(log[i]) = {}
        THEN log[i].matching = NoSelector
        ELSE \E j \in Satisfying(log[i]) :
               /\ \A k \in Satisfying(log[i]) : j <= k
               /\ log[i].matching = log[i].rule.selectors[j]

\* a call whose first candidate holds while a later, different one holds too
C1_Witness ==
  \E i \in Calls :
    /\ HasSpec(log[i])
    /\ Len(log[i].rule.selectors) >= 2
    /\ {1, 2} \subseteq Satisfying(log[i])
    /\ log[i].rule.selectors[1] # log[i].rule.selectors[2]
    /\ log[i].matching = log[i].rule.selectors[1]

\* a pair candidate of the call whose selector matches several elements
CrowdedPairs(e) ==
  {j \in 1..Len(e.rule.selectors) :
     /\ e.rule.selectors[j].arr
     /\ Count(e.before, e.rule.selectors[j].s[1]) > 1}

\* C2 as stated: in every mode, a pair whose selector matches more than one
\* element is never the matching selector.
C2_PairNeverMatchesSeveral ==
  \A i \in Calls :
    HasSpec(log[i]) =>
      \A j \in CrowdedPairs(log[i]) : log[i].matching # log[i].rule.selectors[j]

\* C2 amended: when extractHtml is false, a pair whose selector matches
\* more than one element is never the matching selector, and a field whose
\* only rule is such a pair resolves to null and falls back.
C2_PairNeverMatchesSeveralInTextMode ==
  \A i \in Calls :
    (HasSpec(log[i]) /\ ~InHtmlMode(log[i])) =>
      /\ \A j \in CrowdedPairs(log[i]) : log[i].matching # log[i].rule.selectors[j]
      /\ (Len(log[i].rule.selectors) = 1 /\ CrowdedPairs(log[i]) = {1}) =>
           /\ log[i].matching = NoSelector
           /\ log[i].result = Null
           /\ log[i].opts.fallback # "false" => log[i].generic

\* two elements match the selector of the only rule, a pair, and both
\* carry the attribute with a value
C2_Witness ==
  \E i \in Calls :
    /\ HasSpec(log[i])
    /\ ~InHtmlMode(log[i])
    /\ Len(log[i].rule.selectors) = 1
    /\ CrowdedPairs(log[i]) = {1}
    /\ \A id \in Range(Query(log[i].before, {log[i].rule.selectors[1].s[1]})) :
         /\ log[i].before.n[id].an = log[i].rule.selectors[1].s[2]
         /\ Trim(log[i].before.n[id].av) # <<>>
    /\ log[i].generic

-----------------------------------------------------------------------------

NoRule(e) == e.rule = Undefined

\* C3 as stated: for every options bag, a field without a rule gets the
\* value of the Generic Extractor's strategy called with the same options.
C3_NoRuleEqualsGeneric ==
  \A i \in Calls :
    NoRule(log[i]) => log[i].out = GenericExtractor(log[i].type, log[i].opts)

\* C3 amended: unless the call sets fallback to false, a field without a
\* rule gets the value of the Generic Extractor's strategy called with the
\* same options; with fallback false it gets null.
C3_NoRuleEqualsGenericUnlessDisabled ==
  \A i \in Calls :
    NoRule(log[i]) =>
      /\ log[i].result = Null
      /\ res[log[i].type] = log[i].out
      /\ IF log[i].opts.fallback = "false"
           THEN log[i].out = Null /\ ~log[i].generic
           ELSE /\ log[i].generic
                /\ log[i].out = GenericExtractor(log[i].type, log[i].opts)

\* a field without a rule got a value from the Generic Extractor that
\* depends on a field resolved before it
C3_Witness ==
  \E i \in Calls :
    /\ NoRule(log[i])
    /\ log[i].type = "excerpt"
    /\ log[i].generic
    /\ log[i].out.k = "generic"
    /\ Truthy(log[i].out.opts.content)

\* C4 as stated: the Generic Extractor is called for a field only when the
\* resolver yielded null (or, for content, an empty value) and fallback is
\* not disabled.
C4_GenericOnlyOnNull ==
  \A i \in Calls :
    log[i].generic =>
      /\ log[i].opts.fallback # "false"
      /\ \/ log[i].result = Null
         \/ log[i].type = "content" /\ ~Truthy(log[i].result)

\* the returned record has the key
Returned(key) == ret.k = "record" /\ key \in DOMAIN ret.fields

\* C4 amended: the Generic Extractor is called for a field exactly when the
\* resolver's value is falsy (null or the empty string, for any field) and
\* fallback is not disabled, and its result is the field's value; with
\* fallback false it is never called and every field whose resolver
\* yielded no value is null in the result.
C4_GenericOnFalsy ==
  \A i \in Calls :
    /\ log[i].generic <=> (~Truthy(log[i].result) /\ log[i].opts.fallback # "false")
    /\ log[i].generic => log[i].out = GenericExtractor(log[i].type, log[i].opts)
    /\ Truthy(log[i].result) => log[i].out = log[i].result
    /\ log[i].opts.fallback = callOpts.fallback
    /\ (callOpts.fallback = "false" /\ ~Truthy(log[i].result)) =>
         /\ log[i].out = Null
         /\ res[log[i].type] = Null
         /\ Returned(log[i].type) => ret.fields[log[i].type] = Null
         /\ (Returned("url") /\ log[i].type = "url_and_domain") =>
              ret.fields["url"] = Null /\ ret.fields["domain"] = Null

\* the Generic Extractor was called for the title because its resolver
\* returned the empty string, without any cleaner
C4_Witness ==
  \E i \in Calls :
    /\ log[i].type = "title"
    /\ HasSpec(log[i])
    /\ log[i].rule.defaultCleaner = "false"
    /\ log[i].result = Str(<<>>)
    /\ log[i].generic
    /\ log[i].out.k = "generic"

-----------------------------------------------------------------------------

\* the order in which a full extract resolves the fields
FieldOrder ==
  <<"title", "date_published", "author", "next_page_url", "content",
    "lead_image_url", "excerpt", "dek", "word_count", "direction",
    "url_and_domain">>

FullCall == extractor.domain # "*" /\ ~callOpts.contentOnly

\* the call of the field has finished before call i started, and call i
\* got the field's final value under the name `as`
Receives(i, field, as) ==
  \E j \in 1..(i - 1) :
    /\ log[j].type = field
    /\ log[i].opts[as] = log[j].out
    /\ log[j].out = res[field]
    /\ Returned(field) => ret.fields[field] = log[j].out

\* C5 as stated: direction, like lead_image_url, excerpt and word_count,
\* receives the already-resolved content.
C5_DirectionReceivesContent ==
  FullCall =>
    \A i \in Calls : log[i].type = "direction" => Receives(i, "content", "content")

\* C5 amended: in a full extract the fields are resolved in the order of
\* FieldOrder; content receives the resolved title, lead_image_url, excerpt
\* and word_count the resolved content, dek the resolved content and
\* excerpt, and direction the resolved title (its content is the caller's).
C5_DependenciesInOrder ==
  FullCall =>
    /\ Len(log) <= Len(FieldOrder)
    /\ \A i \in Calls :
         /\ log[i].type = FieldOrder[i]
         /\ log[i].type = "content" => Receives(i, "title", "title")
         /\ log[i].type \in {"lead_image_url", "excerpt", "word_count", "dek"} =>
              Receives(i, "content", "content")
         /\ log[i].type = "dek" => Receives(i, "excerpt", "excerpt")
         /\ log[i].type = "direction" =>
              /\ Receives(i, "title", "title")
              /\ log[i].opts.content = callOpts.content

\* a finished full extract in which the title and the content came from
\* rules and the excerpt from the Generic Extractor
C5_Witness ==
  /\ FullCall
  /\ pc = "done"
  /\ Len(log) = Len(FieldOrder)
  /\ HasSpec(log[1]) /\ Truthy(log[1].result)
  /\ HasSpec(log[5]) /\ Truthy(log[5].result)
  /\ log[7].generic /\ Truthy(log[7].out)
  /\ log[10].opts.title = log[1].out
  /\ log[10].opts.content # log[5].out

\* C6: with contentOnly and a definition that is not the wildcard, only
\* content is resolved, in html mode, with extractedTitle as the title and
\* the caller's contentType (html when absent) as the representation, and
\* the returned record has the single key content.
C6_ContentOnly ==
  (callOpts.contentOnly /\ extractor.domain # "*") =>
    /\ Len(log) <= 1
    /\ \A f \in Fields \ {"content"} : res[f] = Undefined
    /\ \A i \in Calls :
         /\ log[i].type = "content"
         /\ InHtmlMode(log[i])
         /\ log[i].opts.title = callOpts.extractedTitle
         /\ log[i].opts.contentType =
              (IF callOpts.contentType = "undefined" THEN "html" ELSE callOpts.contentType)
         /\ log[i].matching # NoSelector =>
              log[i].result.k =
                (CASE log[i].opts.contentType = "html" -> "html"
                   [] log[i].opts.contentType = "text" -> "str"
                   [] OTHER -> "markdown")
    /\ pc = "done" <=> Len(log) = 1
    /\ pc = "done" =>
         /\ ret.k = "record"
         /\ DOMAIN ret.fields = {"content"}
         /\ ret.fields["content"] = log[1].out
    /\ pc # "done" => ret = NoReturn

\* a finished content-only extract whose rule matched and was rendered as
\* text
C6_Witness ==
  /\ callOpts.contentOnly
  /\ extractor.domain # "*"
  /\ pc = "done"
  /\ callOpts.contentType = "text"
  /\ log[1].matching # NoSelector
  /\ Truthy(log[1].result)
  /\ ret.fields["content"] = log[1].result

\* the value a finished full extract got for url_and_domain
UrlAndDomainOut == log[Len(FieldOrder)].out

\* C7: when a full extract gets no result for url_and_domain, by rule or by
\* fallback or with fallback disabled, the record has url and domain null,
\* all twelve keys, and the other fields' resolved values; the extract
\* never ends in the TypeError of destructuring nothing.
C7_UrlAndDomainDefault ==
  FullCall =>
    /\ pc = "done" => ret.k = "record"
    /\ (pc = "done" /\ ~Truthy(UrlAndDomainOut)) =>
         /\ ret.k = "record"
         /\ DOMAIN ret.fields = ResultKeys
         /\ ret.fields["url"] = Null
         /\ ret.fields["domain"] = Null
         /\ \A i \in 1..(Len(FieldOrder) - 1) :
              ret.fields[log[i].type] = log[i].out

\* a finished full extract whose url_and_domain rule yielded nothing and
\* whose fallback found nothing either, with a title from a rule
C7_Witness ==
  /\ FullCall
  /\ pc = "done"
  /\ HasSpec(log[Len(FieldOrder)])
  /\ log[Len(FieldOrder)].generic
  /\ UrlAndDomainOut = Null
  /\ Truthy(log[1].result)
  /\ ret.fields["title"] = log[1].result

-----------------------------------------------------------------------------

\* C8: a rule that is a string constant is returned unchanged, for every
\* such string and every document: no selector is evaluated, no cleaner is
\* called, the document is not mutated and the Generic Extractor is not
\* called, so the field's value is the constant.
C8_StringConstantReturned ==
  \A i \in Calls :
    log[i].rule.k = "str" =>
      /\ log[i].result = log[i].rule
      /\ log[i].matching = NoSelector
      /\ log[i].steps = <<>>
      /\ log[i].after = log[i].before
      /\ ~log[i].generic
      /\ log[i].out = log[i].rule

-----------------------------------------------------------------------------

\* the call read an attribute: a pair matched with extractHtml false
InAttributeMode(e) == HasSpec(e) /\ ~InHtmlMode(e) /\ e.matching.arr

\* the element the selector of the matching pair selects in the document
\* the call was given
Owner(e) == Query(e.before, {e.matching.s[1]})[1]

\* the trimmed value of the named attribute of the matched element
TrimmedAttribute(e) == Str(Trim(e.before.n[Owner(e)].av))

\* C9 as stated: in attribute mode the resolver returns exactly the trimmed
\* attribute value, no cleaner applied, and the document is not changed.
C9_AttributeNeverCleaned ==
  \A i \in Calls :
    InAttributeMode(log[i]) =>
      /\ log[i].result = TrimmedAttribute(log[i])
      /\ log[i].after = log[i].before

\* C9 amended: in attribute mode the value read is exactly the trimmed
\* value of the named attribute of the single matched element, and neither
\* the clean list nor the transforms touch the document; the resolver
\* returns that value itself only when the rule sets defaultCleaner to false,
\* and otherwise what the field's cleaner makes of it.
C9_AttributeCleanedByDefault ==
  \A i \in Calls :
    InAttributeMode(log[i]) =>
      /\ Len(log[i].matching.s) = 2
      /\ Len(Query(log[i].before, {log[i].matching.s[1]})) = 1
      /\ log[i].before.n[Owner(log[i])].an = log[i].matching.s[2]
      /\ TrimmedAttribute(log[i]).s # <<>>
      /\ log[i].after = log[i].before
      /\ IF log[i].rule.defaultCleaner = "false"
           THEN /\ log[i].result = TrimmedAttribute(log[i])
                /\ log[i].steps = <<"attr">>
           ELSE /\ log[i].result = CleanValue(log[i].type, TrimmedAttribute(log[i]))
                /\ log[i].cleaned = TrimmedAttribute(log[i])
                /\ log[i].steps = <<"attr", "cleaner">>

\* an attribute was read off an element that holds elements the rule's
\* clean list and transforms select, and the field's cleaner was given the
\* trimmed value
C9_Witness ==
  \E i \in Calls :
    /\ InAttributeMode(log[i])
    /\ log[i].rule.clean.has
    /\ log[i].rule.transforms.has
    /\ Find(log[i].before, Range(log[i].rule.clean.sels), <<Owner(log[i])>>) # <<>>
    /\ Find(log[i].before, {log[i].rule.transforms.keys[1].key}, <<Owner(log[i])>>) # <<>>
    /\ log[i].before.n[Owner(log[i])].av # Trim(log[i].before.n[Owner(log[i])].av)
    /\ log[i].result.k = "cleaned"
    /\ log[i].result.of = TrimmedAttribute(log[i])

-----------------------------------------------------------------------------

\* the tag an element of the given tag has once the transforms have run
RECURSIVE Renamed(_, _)
Renamed(tag, keys) ==
  IF keys = <<>> THEN tag
  ELSE Renamed(IF Head(keys).key = tag /\ (Head(keys).kind = "string" \/ Head(keys).to # "")
                 THEN Head(keys).to ELSE tag,
               Tail(keys))

\* the call matched a selector and mutated a region of html
MutatesHtml(e) == HasSpec(e) /\ InHtmlMode(e) /\ e.matching # NoSelector

\* the call matched a plain selector and read the text of its node
MutatesText(e) == HasSpec(e) /\ ~InHtmlMode(e) /\ e.matching # NoSelector /\ ~e.matching.arr

\* the elements of the region of the call, in the document it was given:
\* in html mode what the selector selects and all they hold, in text mode
\* all that the matched node holds
Region(e) ==
  IF InHtmlMode(e)
    THEN Range(Preorder(e.before, Query(e.before, Range(e.matching.s))))
    ELSE Range(Descendants(e.before, Query(e.before, Range(e.matching.s))))

\* the element that is the content of the call, in the document it leaves:
\* the outer div in html mode, the matched node in text mode
ContentOf(e) ==
  IF InHtmlMode(e) THEN Len(e.after.n) ELSE Query(e.before, Range(e.matching.s))[1]

\* the elements the call moves into a new div before it mutates: all that
\* a multi-match selector selects, each taken out of the element holding it
Moved(e) ==
  IF InHtmlMode(e) /\ e.matching.arr
    THEN Range(Query(e.before, Range(e.matching.s))) ELSE {}

Holds(e, y, x) == x \in Range(Preorder(e.before, <<y>>))

\* x is y or is held by y when the mutators run: y holds x in the document
\* the call was given and no element between them, x included, was moved
Under(e, x, y) ==
  \/ x = y
  \/ /\ Holds(e, y, x)
     /\ \A z \in Range(Descendants(e.before, <<y>>)) : Holds(e, z, x) => z \notin Moved(e)

\* the elements of the region a removal of the clean list takes away when
\* it runs after the transforms (html mode) or before them (text mode)
Cleaned(e) ==
  IF ~e.rule.clean.has THEN {}
  ELSE {x \in Region(e) :
          (IF InHtmlMode(e)
             THEN Renamed(e.before.n[x].tag, e.rule.transforms.keys)
             ELSE e.before.n[x].tag) \in Range(e.rule.clean.sels)}

Kept(e) == {x \in Region(e) : \A y \in Cleaned(e) : ~Under(e, x, y)}

\* the elements of the document the call was given that are left in the
\* content
Left(e) ==
  {x \in Range(Descendants(e.after, <<ContentOf(e)>>)) : x <= Len(e.before.n)}

\* C10: in html mode every transform is applied to the wrapped region
\* before any clean removal, so an element is removed exactly when it or an
\* element holding it matches the clean list under its tag after the
\* transforms, and the cleaner and the renderer get the region so mutated;
\* in text mode the removals come first, so an element is removed exactly
\* when it or an element holding it matches under its tag before the
\* transforms, and the text is read after both.
C10_MutationOrder ==
  \A i \in Calls :
    /\ MutatesHtml(log[i]) =>
         /\ log[i].steps = <<"transform", "clean", "cleaner", "render">>
         /\ Left(log[i]) = Kept(log[i])
         /\ \A x \in Kept(log[i]) :
              log[i].after.n[x].tag =
                Renamed(log[i].before.n[x].tag, log[i].rule.transforms.keys)
         /\ log[i].cleaned.tree = Snapshot(log[i].after, <<ContentOf(log[i])>>)
    /\ MutatesText(log[i]) =>
         /\ SubSeq(log[i].steps, 1, 3) = <<"clean", "transform", "text">>
         /\ Left(log[i]) = Kept(log[i])
         /\ \A x \in Kept(log[i]) :
              log[i].after.n[x].tag =
                Renamed(log[i].before.n[x].tag, log[i].rule.transforms.keys)
         /\ log[i].after.n[ContentOf(log[i])].tag = log[i].before.n[ContentOf(log[i])].tag
         /\ (IF log[i].rule.defaultCleaner = "false" THEN log[i].result ELSE log[i].cleaned)
              = Str(Trim(TextOf(log[i].after, <<ContentOf(log[i])>>)))

\* in html mode an element that a transform renamed to a tag of the clean
\* list was removed
C10_Witness ==
  \E i \in Calls :
    /\ MutatesHtml(log[i])
    /\ \E x \in Region(log[i]) :
         /\ log[i].before.n[x].tag \notin Range(log[i].rule.clean.sels)
         /\ x \in Cleaned(log[i])
         /\ x \notin Left(log[i])

\* in html mode an element that a transform renamed away from a tag of the
\* clean list was kept
C10_WitnessRenamedAway ==
  \E i \in Calls :
    /\ MutatesHtml(log[i])
    /\ \E x \in Left(log[i]) :
         /\ log[i].before.n[x].tag \in Range(log[i].rule.clean.sels)
         /\ log[i].after.n[x].tag \notin Range(log[i].rule.clean.sels)

\* in text mode an element that a transform renamed to a tag of the clean
\* list was kept, and an element of that tag was removed
C10_WitnessText ==
  \E i \in Calls :
    /\ MutatesText(log[i])
    /\ \E x \in Left(log[i]) :
         /\ log[i].before.n[x].tag \notin Range(log[i].rule.clean.sels)
         /\ log[i].after.n[x].tag \in Range(log[i].rule.clean.sels)

=============================================================================
